---- MODULE Spec2Model ----
(***************************************************************************)
(* GHouse dashboard: the realtime layer.                                   *)
(*   WebSocketModule  (ghouse-dashboard/js/modules/websocket.js)           *)
(*   App              (main application: poll timer, system listener)      *)
(*   AirMonitoringModule / ConveyorModule (poll fetch and push handlers)   *)
(* The browser is a single-threaded event loop: every action below is one  *)
(* task (a socket event, a timer callback, a call of the public API or the *)
(* continuation of an awaited fetch) and runs the whole handler.           *)
(***************************************************************************)
EXTENDS Integers, Sequences, FiniteSets, TLC

\* ---------------------------------------------------------------- bounds
MaxSockets == 2      \* sockets that are alive (not yet closed) at once
MaxTimers == 2       \* pending reconnect timeouts at once
MaxEvents == 1       \* inbound socket messages handled in one run
MaxListeners == 2    \* listeners registered by consumers other than App
MaxInflight == 1     \* poll fetches of one domain in flight at once
MaxVal == 2          \* distinct domain snapshots the server can report
MaxUnanswered == 2   \* pings sent in a row without a pong in between
MaxCloses == 2       \* abnormal closes in a row that are counted
MaxSpeed == 35       \* largest conveyor speed handled, in tenths of m/s
MaxMessages == 2     \* Telegram messages handed to sendMessage in one run
MaxStatus == 2       \* Telegram status requests in flight at once
MaxRequests == 2     \* calls of ApiClient.request in one run
MaxStack == 3        \* nested calls the call stack has room for
MaxPending == 2      \* calls of start() or of stop() awaiting their answer
MaxExcess == 5       \* how far a sensor value lies outside its range

\* ------------------------------------------------------ program constants
reconnectInterval == 3000
maxReconnectInterval == 30000
MaxReconnectAttempts == 10
NormalClosure == 1000
configDataRefreshInterval == 10000
AbnormalClosure == 1006
\* ConveyorModule config.speed and the initial state.speed, in tenths of m/s
speedMin == 5
speedMax == 30
speedInitial == 12
\* ApiClient config.retryAttempts and config.retryDelay
retryAttempts == 3
retryDelay == 1000
\* ConveyorModule config.interval and the initial state.interval, in seconds
intervalMin == 1
intervalMax == 10
intervalInitial == 3

Channels == {"air", "conveyor"}
Topics == Channels \cup {"system"}
\* the channel consumers other than App register listeners on
ConsumerChannels == {"air"}
SockIds == 1..MaxSockets
Values == 1..MaxVal
CloseCodes == {NormalClosure, AbnormalClosure}
AppListener == 0
Listeners == 1..MaxListeners
\* listener 1 is a consumer callback that throws on every call
Throwing == {1}
\* speeds a caller or the server can give, and a status without a speed
Speeds == 0..MaxSpeed
NoSpeed == -1

VARIABLES
    ws,                  \* state.ws: 0 (null) or the id of a socket
    sock,                \* readyState of every socket slot
    isConnected,         \* state.isConnected
    isConnecting,        \* state.isConnecting
    reconnectAttempts,   \* state.reconnectAttempts
    subscribedChannels,  \* state.subscribedChannels
    channelCallbacks,    \* channelCallbacks: topic -> sequence of listeners
    messageHandlers,     \* number of entries of state.messageHandlers
    pingInterval,        \* state.pingInterval is not null
    pingTimers,          \* ping intervals armed in the event loop
    reconnectTimers,     \* reconnect timeouts pending in the event loop
    lastDelay,           \* delay of the reconnect timeout scheduled last
    token,               \* ApiClient holds an access token
    appPhase,            \* position of App.init
    dataRefreshInterval, \* App's dataRefreshInterval is not null
    pollTimers,          \* App poll intervals armed in the event loop
    useWebSocket,        \* App state.useWebSocket
    updateTimer,         \* AirMonitoringModule's updateTimer is armed
    domain,              \* the state each domain module shows
    speed,               \* ConveyorModule state.speed, in tenths of m/s
    fetching,            \* poll fetches in flight, started in Poll mode
    staleFetch,          \* poll fetches in flight overtaken by push
    disposers,           \* disposers returned by onChannel to consumers
    closesSinceOpen,     \* abnormal closes since the last open event,
                         \* counted up to MaxCloses
    unanswered,          \* pings sent since the last open event or pong
    exhaustedBefore,     \* the handler that ran last found the attempt
                         \* counter at the limit
    effects,             \* what the handler that ran last did, in order
    telegram,            \* TelegramModule: state, timers and requests
    api,                 \* ApiClient: refresh token, isRefreshing, requests
    conveyor,            \* ConveyorModule: running, interval and timers
    air                  \* AirMonitoringModule: a parameter, value, status

\* the state of the modules beside the realtime layer
moduleVars == <<telegram, api, conveyor, air>>

\* the state of the realtime layer, but for the access token
layerVars ==
    <<ws, sock, isConnected, isConnecting, reconnectAttempts,
      subscribedChannels, channelCallbacks, messageHandlers,
      pingInterval, pingTimers, reconnectTimers, lastDelay,
      appPhase, dataRefreshInterval, pollTimers, useWebSocket,
      updateTimer, domain, speed, fetching, staleFetch, disposers,
      closesSinceOpen, unanswered, exhaustedBefore, effects>>

realtimeVars == <<layerVars, token>>

vars == <<realtimeVars, moduleVars>>

\* the program state as one record, so that a handler is a composition of
\* the functions it calls
Cur ==
    [ws |-> ws, sock |-> sock, isConnected |-> isConnected,
     isConnecting |-> isConnecting, reconnectAttempts |-> reconnectAttempts,
     subscribedChannels |-> subscribedChannels,
     channelCallbacks |-> channelCallbacks,
     messageHandlers |-> messageHandlers, pingInterval |-> pingInterval,
     pingTimers |-> pingTimers, reconnectTimers |-> reconnectTimers,
     lastDelay |-> lastDelay, token |-> token, appPhase |-> appPhase,
     dataRefreshInterval |-> dataRefreshInterval, pollTimers |-> pollTimers,
     useWebSocket |-> useWebSocket, updateTimer |-> updateTimer,
     domain |-> domain, speed |-> speed, fetching |-> fetching, staleFetch |-> staleFetch,
     disposers |-> disposers, closesSinceOpen |-> closesSinceOpen,
     unanswered |-> unanswered, exhaustedBefore |-> exhaustedBefore,
     effects |-> <<>>]

Bounded(r) ==
    /\ r.reconnectTimers <= MaxTimers
    /\ r.messageHandlers <= MaxEvents
    /\ r.unanswered <= MaxUnanswered

CommitRealtime(r) ==
    /\ Bounded(r)
    /\ ws' = r.ws
    /\ sock' = r.sock
    /\ isConnected' = r.isConnected
    /\ isConnecting' = r.isConnecting
    /\ reconnectAttempts' = r.reconnectAttempts
    /\ subscribedChannels' = r.subscribedChannels
    /\ channelCallbacks' = r.channelCallbacks
    /\ messageHandlers' = r.messageHandlers
    /\ pingInterval' = r.pingInterval
    /\ pingTimers' = r.pingTimers
    /\ reconnectTimers' = r.reconnectTimers
    /\ lastDelay' = r.lastDelay
    /\ token' = r.token
    /\ appPhase' = r.appPhase
    /\ dataRefreshInterval' = r.dataRefreshInterval
    /\ pollTimers' = r.pollTimers
    /\ useWebSocket' = r.useWebSocket
    /\ updateTimer' = r.updateTimer
    /\ domain' = r.domain
    /\ speed' = r.speed
    /\ fetching' = r.fetching
    /\ staleFetch' = r.staleFetch
    /\ disposers' = r.disposers
    /\ closesSinceOpen' = r.closesSinceOpen
    /\ unanswered' = r.unanswered
    /\ exhaustedBefore' = r.exhaustedBefore
    /\ effects' = r.effects

Commit(r) == CommitRealtime(r) /\ UNCHANGED moduleVars

\* an entry of the effects log: k kind, a type, c channel, n socket/listener
Eff(k, a, c, n) == [k |-> k, a |-> a, c |-> c, n |-> n]
Emit(st, e) == [st EXCEPT !.effects = Append(@, e)]

\* the state at the start of a task of the event loop; e names the task
Task(k, a, c, n) ==
    [Cur EXCEPT !.effects = <<Eff(k, a, c, n)>>,
                !.exhaustedBefore =
                    (reconnectAttempts >= MaxReconnectAttempts)]

Min(a, b) == IF a <= b THEN a ELSE b
Max(a, b) == IF a >= b THEN a ELSE b

\* ------------------------------------------------ WebSocketModule helpers
stopPingInterval(st) ==
    IF st.pingInterval
    THEN [st EXCEPT !.pingInterval = FALSE, !.pingTimers = @ - 1]
    ELSE st

startPingInterval(st) ==
    LET s1 == stopPingInterval(st)
    IN [s1 EXCEPT !.pingInterval = TRUE, !.pingTimers = @ + 1]

\* send() returns true: connected, a socket object is held and its
\* send() does not throw (it throws only while the socket is CONNECTING)
sendOk(st) ==
    /\ st.isConnected
    /\ st.ws # 0
    /\ st.sock[st.ws] # "connecting"

\* a socket that is CLOSING or CLOSED discards the data without throwing
send(st, type, channel) ==
    IF ~sendOk(st) THEN st
    ELSE IF st.sock[st.ws] = "open"
         THEN Emit(st, Eff("send", type, channel, st.ws))
         ELSE Emit(st, Eff("drop", type, channel, st.ws))

subscribe(st, channel) ==
    IF channel \in st.subscribedChannels THEN st
    ELSE IF sendOk(st)
         THEN [send(st, "subscribe", channel)
                  EXCEPT !.subscribedChannels = @ \cup {channel}]
         ELSE st

\* unsubscribe without the early return for a channel not subscribed
unsubscribe_NoGuard(st, channel) ==
    IF sendOk(st)
    THEN [send(st, "unsubscribe", channel)
             EXCEPT !.subscribedChannels = @ \ {channel}]
    ELSE st

unsubscribe(st, channel) ==
    IF channel \notin st.subscribedChannels THEN st
    ELSE IF sendOk(st)
         THEN [send(st, "unsubscribe", channel)
                  EXCEPT !.subscribedChannels = @ \ {channel}]
         ELSE st

RECURSIVE forEachSubscribe(_, _)
forEachSubscribe(st, S) ==
    IF S = {} THEN st
    ELSE LET c == CHOOSE x \in S : TRUE
         IN forEachSubscribe(subscribe(st, c), S \ {c})

resubscribeChannels(st) == forEachSubscribe(st, st.subscribedChannels)

\* scheduleReconnect with the delay not capped at maxReconnectInterval
scheduleReconnect_Uncapped(st) ==
    IF st.reconnectAttempts >= MaxReconnectAttempts THEN st
    ELSE LET delay == reconnectInterval * (2 ^ st.reconnectAttempts)
         IN Emit([st EXCEPT !.reconnectAttempts = @ + 1,
                            !.reconnectTimers = @ + 1,
                            !.lastDelay = delay],
                 Eff("timer", "reconnect", "", delay))

scheduleReconnect(st) ==
    IF st.reconnectAttempts >= MaxReconnectAttempts THEN st
    ELSE LET delay == Min(reconnectInterval * (2 ^ st.reconnectAttempts),
                          maxReconnectInterval)
         IN Emit([st EXCEPT !.reconnectAttempts = @ + 1,
                            !.reconnectTimers = @ + 1,
                            !.lastDelay = delay],
                 Eff("timer", "reconnect", "", delay))

\* ------------------------------------------------------------------- App
stopDataRefresh(st) ==
    IF st.dataRefreshInterval
    THEN [st EXCEPT !.dataRefreshInterval = FALSE, !.pollTimers = @ - 1]
    ELSE st

\* startDataRefresh without the stopDataRefresh() it begins with
startDataRefresh_NoStop(st) ==
    Emit([st EXCEPT !.dataRefreshInterval = TRUE, !.pollTimers = @ + 1],
         Eff("timer", "poll", "", configDataRefreshInterval))

startDataRefresh(st) ==
    LET s1 == stopDataRefresh(st)
    IN Emit([s1 EXCEPT !.dataRefreshInterval = TRUE, !.pollTimers = @ + 1],
            Eff("timer", "poll", "", configDataRefreshInterval))

\* bookkeeping, not program state: the fetches in flight of domain d have
\* been overtaken by push
Overtake(st, D) ==
    [st EXCEPT !.staleFetch = [d \in Channels |->
                   IF d \in D THEN @[d] + st.fetching[d] ELSE @[d]],
               !.fetching = [d \in Channels |->
                   IF d \in D THEN 0 ELSE @[d]]]

\* the 'system' listener without the start of polling on 'disconnected'
AppSystemHandler_NoPollOnDisconnect(st, msg) ==
    IF msg.type = "connected"
    THEN Overtake(stopDataRefresh([st EXCEPT !.useWebSocket = TRUE]),
                  Channels)
    ELSE IF msg.type = "disconnected"
    THEN [st EXCEPT !.useWebSocket = FALSE]
    ELSE st

\* the listener App registers on 'system'
AppSystemHandler(st, msg) ==
    IF msg.type = "connected"
    THEN Overtake(stopDataRefresh([st EXCEPT !.useWebSocket = TRUE]),
                  Channels)
    ELSE IF msg.type = "disconnected"
    THEN startDataRefresh([st EXCEPT !.useWebSocket = FALSE])
    ELSE st

\* the modules' handleWebSocketEvent, reached through App's listener of
\* the domain's channel
handleWebSocketEvent(st, d, msg) ==
    IF msg.type = "update"
    THEN Overtake([st EXCEPT !.domain[d] = msg.data], {d})
    ELSE st

InvokeListener(st, l, topic, msg) ==
    IF l = AppListener
    THEN LET s1 == Emit(st, Eff("cb", msg.type, topic, l))
         IN IF topic = "system" THEN AppSystemHandler(s1, msg)
            ELSE handleWebSocketEvent(s1, topic, msg)
    ELSE IF l \in Throwing
         THEN Emit(st, Eff("throw", msg.type, topic, l))
         ELSE Emit(st, Eff("cb", msg.type, topic, l))

RECURSIVE forEachCallback(_, _, _, _)
forEachCallback(st, cbs, topic, msg) ==
    IF cbs = <<>> THEN st
    ELSE forEachCallback(InvokeListener(st, Head(cbs), topic, msg),
                         Tail(cbs), topic, msg)

callChannelCallbacks(st, topic, msg) ==
    forEachCallback(st, st.channelCallbacks[topic], topic, msg)

SysMsg(type) == [type |-> type, channel |-> "system", data |-> 0]

\* ------------------------------------------------- WebSocketModule events
\* connect without the guard on isConnected and isConnecting
connect_Unguarded(st, s) ==
    IF ~st.token THEN st
    ELSE IF s = 0
         THEN scheduleReconnect([st EXCEPT !.isConnecting = FALSE])
         ELSE [st EXCEPT !.isConnecting = TRUE,
                         !.ws = s,
                         !.sock[s] = "connecting"]

\* s = 0: the WebSocket constructor throws; otherwise s is the new socket
connect(st, s) ==
    IF st.isConnected \/ st.isConnecting THEN st
    ELSE IF ~st.token THEN st
    ELSE IF s = 0
         THEN scheduleReconnect([st EXCEPT !.isConnecting = FALSE])
         ELSE [st EXCEPT !.isConnecting = TRUE,
                         !.ws = s,
                         !.sock[s] = "connecting"]

\* onOpen without the reset of the attempt counter
onOpen_NoReset(st) ==
    LET s1 == [st EXCEPT !.isConnected = TRUE,
                         !.isConnecting = FALSE]
        s2 == startPingInterval(s1)
        s3 == resubscribeChannels(s2)
        s4 == Emit(s3, Eff("notify", "connected", "", 0))
    IN callChannelCallbacks(s4, "system", SysMsg("connected"))

onOpen(st) ==
    LET s1 == [st EXCEPT !.isConnected = TRUE,
                         !.isConnecting = FALSE,
                         !.reconnectAttempts = 0]
        s2 == startPingInterval(s1)
        s3 == resubscribeChannels(s2)
        s4 == Emit(s3, Eff("notify", "connected", "", 0))
    IN callChannelCallbacks(s4, "system", SysMsg("connected"))

\* onClose scheduling a reconnect whatever the close code
onClose_ReconnectOnAnyCode(st, code) ==
    LET s1 == [st EXCEPT !.isConnected = FALSE, !.isConnecting = FALSE]
        s2 == stopPingInterval(s1)
        s3 == callChannelCallbacks(s2, "system", SysMsg("disconnected"))
    IN scheduleReconnect(s3)

onClose(st, code) ==
    LET s1 == [st EXCEPT !.isConnected = FALSE, !.isConnecting = FALSE]
        s2 == stopPingInterval(s1)
        s3 == callChannelCallbacks(s2, "system", SysMsg("disconnected"))
    IN IF code # NormalClosure THEN scheduleReconnect(s3) ELSE s3

onError(st) == [st EXCEPT !.isConnecting = FALSE]

\* the handler declared at line 158 (dispatch of an inbound message)
onMessageDispatch(st, msg) ==
    LET s1 == IF msg.channel # ""
              THEN forEachCallback(st, st.channelCallbacks[msg.channel],
                                   msg.channel, msg)
              ELSE st
    IN IF msg.type = "ping" THEN send(s1, "pong", "") ELSE s1

\* the function declared at line 346 (registration of a handler for a
\* message type), called with the event as its only argument: the event
\* object is a new key of the map, its handler list holds undefined
onMessageRegister(st, msg) == [st EXCEPT !.messageHandlers = @ + 1]

\* two function declarations named onMessage in one scope: the identifier
\* refers to the later one
HoistedOnMessage == "register"

\* ws.onmessage treating a message type it does not know as a failure of
\* the connection
wsOnmessage_UnknownIsFatal(st, msg) ==
    IF msg.type = "other" THEN onClose(st, AbnormalClosure)
    ELSE onMessageRegister(st, msg)

wsOnmessage(st, msg) ==
    IF HoistedOnMessage = "register"
    THEN onMessageRegister(st, msg)
    ELSE onMessageDispatch(st, msg)

\* what ws.close(1000, ...) does to the socket's readyState
closeSocket(state) ==
    IF state = "connecting" THEN "failing"
    ELSE IF state = "open" THEN "closing"
    ELSE state

\* disconnect without state.ws = null
disconnect_KeepsSocket(st) ==
    LET s1 == stopPingInterval(st)
        s2 == IF s1.ws # 0
              THEN Emit([s1 EXCEPT !.sock[s1.ws] = closeSocket(@)],
                        Eff("close", "client", "", s1.ws))
              ELSE s1
    IN [s2 EXCEPT !.isConnected = FALSE,
                  !.isConnecting = FALSE,
                  !.subscribedChannels = {}]

disconnect(st) ==
    LET s1 == stopPingInterval(st)
        s2 == IF s1.ws # 0
              THEN Emit([s1 EXCEPT !.sock[s1.ws] = closeSocket(@),
                                   !.ws = 0],
                        Eff("close", "client", "", s1.ws))
              ELSE s1
    IN [s2 EXCEPT !.isConnected = FALSE,
                  !.isConnecting = FALSE,
                  !.subscribedChannels = {}]

\* reconnect without the reset of the attempt counter
reconnect_NoReset(st, s) == connect(disconnect(st), s)

reconnect(st, s) ==
    connect([disconnect(st) EXCEPT !.reconnectAttempts = 0], s)

onChannel(st, channel, l) ==
    subscribe([st EXCEPT !.channelCallbacks[channel] = Append(@, l)],
              channel)

Without(cbs, l) == SelectSeq(cbs, LAMBDA cb : cb # l)

\* the function onChannel(channel, l) returned
disposer(st, channel, l) ==
    LET s1 == [st EXCEPT !.channelCallbacks[channel] = Without(@, l)]
    IN IF Len(s1.channelCallbacks[channel]) = 0
       THEN unsubscribe(s1, channel)
       ELSE s1

\* ------------------------------------------------ poll fetch (loadFromApi)
\* refreshData(): the module starts a fetch of its domain's snapshot
refreshData(st, d) ==
    IF st.fetching[d] + st.staleFetch[d] < MaxInflight
    THEN [st EXCEPT !.fetching[d] = @ + 1]
    ELSE st

RECURSIVE forEachRefresh(_, _)
forEachRefresh(st, D) ==
    IF D = {} THEN st
    ELSE LET d == CHOOSE x \in D : TRUE
         IN forEachRefresh(refreshData(st, d), D \ {d})

refreshAllData(st) == forEachRefresh(st, Channels)

\* the continuation of loadFromApi after the awaited request: the status
\* received is written to the module's state
loadFromApi(st, d, v) ==
    Emit([st EXCEPT !.domain[d] = v], Eff("apply", "poll", d, v))

\* -------------------------------------------------------- ConveyorModule
setSpeed(st, v) ==
    [st EXCEPT !.speed = Max(speedMin, Min(speedMax, v))]

\* status.speed ?? state.speed
Coalesce(v, old) == IF v = NoSpeed THEN old ELSE v

\* the speed part of loadFromApi after the awaited request
loadSpeedFromApi(st, v) == [st EXCEPT !.speed = Coalesce(v, @)]

\* the speed part of handleWebSocketEvent, case 'status_update'
statusUpdateSpeed(st, v) == [st EXCEPT !.speed = Coalesce(v, @)]

\* -------------------------------------------------------- TelegramModule
MessageIds == 1..MaxMessages

\* state and timers of the module after construction. configured stands
\* for state.botToken && state.chatId; reconnectTimeout and queueInterval
\* say that the handle is not null; timers are the reconnect timeouts
\* pending in the event loop and handleArmed says that the timeout named
\* by reconnectTimeout is one of them; queueTimers are the armed queue
\* intervals. statusInflight, sending, delivered, failed, accepted and
\* stopped record the requests in flight and what has happened.
telegramInitial ==
    [phase |-> "new", connected |-> FALSE, configured |-> FALSE,
     queue |-> <<>>, reconnectTimeout |-> FALSE, handleArmed |-> FALSE,
     timers |-> 0, queueInterval |-> FALSE, queueTimers |-> 0,
     statusInflight |-> 0, sending |-> {}, delivered |-> {},
     failed |-> {}, accepted |-> {}, stopped |-> FALSE]

\* scheduleReconnect: clearTimeout of the handle, then a new timeout
telegramScheduleReconnect(t) ==
    LET cleared == IF t.reconnectTimeout /\ t.handleArmed
                   THEN [t EXCEPT !.handleArmed = FALSE, !.timers = @ - 1]
                   ELSE t
    IN  [cleared EXCEPT !.reconnectTimeout = TRUE, !.handleArmed = TRUE,
                        !.timers = @ + 1]

setConnected(t) == [t EXCEPT !.connected = TRUE]

setDisconnected(t) ==
    LET t1 == [t EXCEPT !.connected = FALSE]
    IN  IF t1.configured THEN telegramScheduleReconnect(t1) ELSE t1

\* connect up to its await: without a token or a chat id it gives up,
\* else it asks the backend for the status
telegramConnect(t) ==
    IF ~t.configured
    THEN setDisconnected(t)
    ELSE [t EXCEPT !.statusInflight = @ + 1]

\* connect after its await: what is "connected", "disconnected" (a status
\* that is not connected) or "error" (the request failed)
telegramConnectResume(t, what) ==
    LET t1 == [t EXCEPT !.statusInflight = @ - 1]
    IN  IF what = "connected"
        THEN setConnected(t1)
        ELSE telegramScheduleReconnect(setDisconnected(t1))

startQueueProcessor(t) ==
    LET cleared == IF t.queueInterval
                   THEN [t EXCEPT !.queueTimers = @ - 1] ELSE t
    IN  [cleared EXCEPT !.queueInterval = TRUE, !.queueTimers = @ + 1]

\* sendMessageToApi up to its await (config.useApi is true)
sendMessageToApi(t, m) == [t EXCEPT !.sending = @ \cup {m}]

processQueue(t) ==
    IF t.queue = <<>> \/ ~t.connected
    THEN t
    ELSE sendMessageToApi([t EXCEPT !.queue = Tail(@)], Head(t.queue))

\* sendMessage: enabled is shouldSendNotification(type)
sendMessage(t, m, enabled) ==
    IF ~enabled
    THEN t
    ELSE IF ~t.connected
         THEN [t EXCEPT !.queue = Append(@, m), !.accepted = @ \cup {m}]
         ELSE sendMessageToApi(t, m)

\* disconnect: the handles are cleared, not reset to null
telegramDisconnect(t) ==
    LET t1 == IF t.queueInterval /\ t.queueTimers > 0
              THEN [t EXCEPT !.queueTimers = @ - 1] ELSE t
        t2 == IF t1.reconnectTimeout /\ t1.handleArmed
              THEN [t1 EXCEPT !.handleArmed = FALSE, !.timers = @ - 1]
              ELSE t1
    IN  [t2 EXCEPT !.connected = FALSE]

\* ------------------------------------------------------------- ApiClient
RequestIds == 1..MaxRequests
\* how the fetch of the endpoint settles: a 2xx answer, a 401, another
\* error status (each with a JSON body), a rejection named AbortError, or
\* any other rejection (the network failed, the body is not JSON)
FetchOutcomes == {"ok", "401", "error", "abort", "network"}
\* how the fetch of /auth/refresh settles
RefreshOutcomes == {"ok", "rejected", "network"}

\* a call of request: pc is its position, attempt the loop counter,
\* fetches the fetches of the endpoint it has started, delay the argument
\* of the sleep it is in (or was in last), last how its last fetch settled,
\* lastError the error caught last and error what it threw
requestInitial ==
    [pc |-> "idle", requireAuth |-> TRUE, attempt |-> 0, fetches |-> 0,
     delay |-> 0, last |-> "none", lastError |-> "none", error |-> "none"]

\* refreshing: the fetches of /auth/refresh in flight; lastRefresh: how the
\* last of them settled
apiInitial ==
    [refreshToken |-> TRUE, isRefreshing |-> FALSE, refreshing |-> 0,
     lastRefresh |-> "none", req |-> [r \in RequestIds |-> requestInitial]]

\* ApiClient's state with the access token
ApiCur ==
    [accessToken |-> token, refreshToken |-> api.refreshToken,
     isRefreshing |-> api.isRefreshing, refreshing |-> api.refreshing,
     lastRefresh |-> api.lastRefresh, req |-> api.req]

ApiCommit(a) ==
    /\ token' = a.accessToken
    /\ api' = [refreshToken |-> a.refreshToken,
               isRefreshing |-> a.isRefreshing,
               refreshing |-> a.refreshing, lastRefresh |-> a.lastRefresh,
               req |-> a.req]
    /\ UNCHANGED <<layerVars, telegram, conveyor, air>>

saveTokens(a) == [a EXCEPT !.accessToken = TRUE, !.refreshToken = TRUE]
clearTokens(a) == [a EXCEPT !.accessToken = FALSE, !.refreshToken = FALSE]

\* the head of the for loop of request r: the next fetch, or the throw
\* after the last attempt
requestLoop(a, r) ==
    IF a.req[r].attempt < retryAttempts
    THEN [a EXCEPT !.req[r].pc = "fetch", !.req[r].fetches = @ + 1]
    ELSE [a EXCEPT !.req[r].pc = "thrown",
                   !.req[r].error = IF a.req[r].lastError = "network"
                                    THEN "network" ELSE "ApiError"]

\* the catch block of request r for an error that is not an ApiError
requestCatch(a, r) ==
    LET a1 == [a EXCEPT !.req[r].lastError = "network"]
    IN  IF a1.req[r].attempt < retryAttempts - 1
        THEN [a1 EXCEPT !.req[r].pc = "sleep",
                        !.req[r].delay = retryDelay * (a1.req[r].attempt + 1)]
        ELSE requestLoop([a1 EXCEPT !.req[r].attempt = @ + 1], r)

\* the catch block of request r for an ApiError
requestThrow(a, r) ==
    [a EXCEPT !.req[r].pc = "thrown", !.req[r].lastError = "ApiError",
              !.req[r].error = "ApiError"]

\* refreshAccessToken up to its await, called by request r
refreshAccessToken_NoFlag(a, r) ==
    IF ~a.refreshToken
    THEN requestThrow(a, r)
    ELSE [a EXCEPT !.refreshing = @ + 1, !.req[r].pc = "refresh"]

refreshAccessToken(a, r) ==
    IF ~a.refreshToken
    THEN requestThrow(a, r)
    ELSE [a EXCEPT !.isRefreshing = TRUE, !.refreshing = @ + 1,
                   !.req[r].pc = "refresh"]

requestFetched_RetriesApiError(a, r, o) ==
    LET a1 == [a EXCEPT !.req[r].last = o]
    IN  CASE o = "401" /\ a1.req[r].requireAuth /\ ~a1.isRefreshing
               -> refreshAccessToken(a1, r)
          [] o = "ok" -> [a1 EXCEPT !.req[r].pc = "returned"]
          [] o = "abort" -> requestThrow(a1, r)
          [] OTHER -> requestCatch(a1, r)

\* request r after await fetch(url), which settled as o
requestFetched(a, r, o) ==
    LET a1 == [a EXCEPT !.req[r].last = o]
    IN  CASE o = "401" /\ a1.req[r].requireAuth /\ ~a1.isRefreshing
               -> refreshAccessToken(a1, r)
          [] o = "ok" -> [a1 EXCEPT !.req[r].pc = "returned"]
          [] o \in {"401", "error", "abort"} -> requestThrow(a1, r)
          [] OTHER -> requestCatch(a1, r)

\* refreshAccessToken after its await and request r after it
requestRefreshed(a, r, o) ==
    LET a1 == [a EXCEPT !.isRefreshing = FALSE, !.refreshing = @ - 1,
                        !.lastRefresh = o]
    IN  CASE o = "ok"
               -> requestLoop([saveTokens(a1) EXCEPT !.req[r].attempt = @ + 1],
                              r)
          [] o = "rejected" -> requestThrow(clearTokens(a1), r)
          [] OTHER -> requestCatch(clearTokens(a1), r)

\* request r after await sleep(...)
requestSlept(a, r) == requestLoop([a EXCEPT !.req[r].attempt = @ + 1], r)

\* ----------------------------------------- ConveyorModule: start and stop
\* Number(f) of a function f, and what Math.min and Math.max make of it
NaN == -1
\* arguments of setInterval: the values of the slider, and a callback
IntervalArgs == 0..(intervalMax + 1)
Callback == -2

\* a running flag the server gives, or none
Flags == {"true", "false", "none"}
\* flag ?? current
CoalesceFlag(flag, current) == IF flag = "none" THEN current ELSE flag = "true"

\* running, state.interval, the handles itemInterval and workTimeInterval
\* (not null), the intervals armed in the event loop, the calls of start()
\* and stop() awaiting their answer, and whether the handler that ran last
\* ended in a RangeError (the call stack was exhausted)
conveyorInitial ==
    [running |-> FALSE, interval |-> intervalInitial,
     itemInterval |-> FALSE, itemTimers |-> 0,
     workTimeInterval |-> FALSE, workTimers |-> 0,
     starting |-> 0, stopping |-> 0, thrown |-> FALSE]

\* Math.max(config.interval.min, Math.min(config.interval.max, x))
clampInterval(x) ==
    IF x = Callback \/ x = NaN
    THEN NaN
    ELSE Max(intervalMin, Min(intervalMax, x))

stopItemGeneration(c) ==
    IF c.itemInterval
    THEN [c EXCEPT !.itemInterval = FALSE, !.itemTimers = @ - 1]
    ELSE c

stopWorkTimeTimer(c) ==
    IF c.workTimeInterval
    THEN [c EXCEPT !.workTimeInterval = FALSE, !.workTimers = @ - 1]
    ELSE c

RECURSIVE setInterval(_, _, _)
RECURSIVE startItemGeneration(_, _)

\* setInterval(interval) of the module, with room for depth more calls.
\* Inside the module this declaration is what the name setInterval refers
\* to, also in startItemGeneration and startWorkTimeTimer.
setInterval(c, interval, depth) ==
    IF depth = 0
    THEN [c EXCEPT !.thrown = TRUE]
    ELSE LET c1 == [c EXCEPT !.interval = clampInterval(interval)]
         IN  IF c1.running
             THEN startItemGeneration(stopItemGeneration(c1), depth - 1)
             ELSE c1

\* startItemGeneration: clearInterval of the handle, then setInterval with
\* a callback, whose result (undefined) becomes the handle
startItemGeneration(c, depth) ==
    IF depth = 0
    THEN [c EXCEPT !.thrown = TRUE]
    ELSE LET c1 == IF c.itemInterval
                   THEN [c EXCEPT !.itemTimers = @ - 1] ELSE c
             c2 == setInterval(c1, Callback, depth - 1)
         IN  IF c2.thrown THEN c2 ELSE [c2 EXCEPT !.itemInterval = FALSE]

startWorkTimeTimer(c, depth) ==
    LET c1 == IF c.workTimeInterval
              THEN [c EXCEPT !.workTimers = @ - 1] ELSE c
        c2 == setInterval(c1, Callback, depth - 1)
    IN  IF c2.thrown THEN c2 ELSE [c2 EXCEPT !.workTimeInterval = FALSE]

\* state.running = true and the timers (start, lines 204-209 and 225-230)
startTimers(c) ==
    LET c1 == startItemGeneration([c EXCEPT !.running = TRUE], MaxStack)
    IN  IF c1.thrown THEN c1 ELSE startWorkTimeTimer(c1, MaxStack)

\* start after its await: the try block and, when the request failed or
\* the try block threw, the fallback
startResume(c, ok) ==
    LET c0 == [c EXCEPT !.starting = @ - 1, !.thrown = FALSE]
        tried == IF ok THEN startTimers(c0) ELSE [c0 EXCEPT !.thrown = TRUE]
    IN  IF tried.thrown
        THEN startTimers([tried EXCEPT !.thrown = FALSE])
        ELSE tried

\* stop after its await: both paths do the same
stopResume(c) ==
    stopWorkTimeTimer(stopItemGeneration(
        [c EXCEPT !.stopping = @ - 1, !.thrown = FALSE, !.running = FALSE]))

\* ------------------------------------------------ AirMonitoringModule status
Params == {"temperature", "humidity", "co2", "pressure"}
\* config[param].min and config[param].max
paramMin ==
    [p \in Params |->
        CASE p = "temperature" -> 18 [] p = "humidity" -> 40
          [] p = "co2" -> 300 [] OTHER -> 740]
paramMax ==
    [p \in Params |->
        CASE p = "temperature" -> 30 [] p = "humidity" -> 80
          [] p = "co2" -> 1000 [] OTHER -> 780]
\* the values a sensor of parameter p reports
SensorValues(p) == (paramMin[p] - MaxExcess)..(paramMax[p] + MaxExcess)

airInitial ==
    [param |-> "temperature", value |-> 24, status |-> "ok",
     computed |-> FALSE]

\* getStatus; warningMargin is range * 0.1, so the comparisons are made
\* on ten times the values
getStatus(value, min, max) ==
    LET range == max - min
    IN  IF 10 * value < 10 * min + range \/ 10 * value > 10 * max - range
        THEN "warning"
        ELSE IF value < min \/ value > max
             THEN "error"
             ELSE "ok"

\* ------------------------------------------------------------------ Init
\* all but AirMonitoringModule
InitBase ==
    /\ ws = 0
    /\ sock = [s \in SockIds |-> "closed"]
    /\ isConnected = FALSE
    /\ isConnecting = FALSE
    /\ reconnectAttempts = 0
    /\ subscribedChannels = {}
    /\ channelCallbacks = [t \in Topics |-> <<>>]
    /\ messageHandlers = 0
    /\ pingInterval = FALSE
    /\ pingTimers = 0
    /\ reconnectTimers = 0
    /\ lastDelay = 0
    /\ token = TRUE
    /\ appPhase = "boot"
    /\ dataRefreshInterval = FALSE
    /\ pollTimers = 0
    /\ useWebSocket = TRUE
    /\ updateTimer = FALSE
    /\ domain = [d \in Channels |-> 1]
    /\ speed = speedInitial
    /\ fetching = [d \in Channels |-> 0]
    /\ staleFetch = [d \in Channels |-> 0]
    /\ disposers = {}
    /\ closesSinceOpen = 0
    /\ unanswered = 0
    /\ exhaustedBefore = FALSE
    /\ effects = <<>>
    /\ telegram = telegramInitial
    /\ api = apiInitial
    /\ conveyor = conveyorInitial

Init == InitBase /\ air = airInitial

\* ---------------------------------------------------------------- actions
FreeSlots(st) == {s \in SockIds : st.sock[s] = "closed"}
LeastFree(st) == CHOOSE s \in FreeSlots(st) : \A t \in FreeSlots(st) : s <= t
\* outcomes of new WebSocket(url): it throws (0) or yields a socket
NewSocket(st) == IF FreeSlots(st) = {} THEN {} ELSE {0, LeastFree(st)}
Created == 0..MaxSockets

\* App.init up to the first await: WebSocketModule.init() connects
AppInitStart(s) ==
    /\ appPhase = "boot"
    /\ s \in NewSocket(Cur)
    /\ Commit([connect(Task("call", "init", "", 0), s)
                  EXCEPT !.appPhase = "modules"])

\* AirMonitoringModule.init() inside initModules(): first load, then
\* startMonitoring() arms the module's own refresh timer
AirModuleInit ==
    /\ appPhase = "modules"
    /\ \E v \in Values :
          Commit([Task("call", "airInit", "air", v)
                     EXCEPT !.domain["air"] = v,
                             !.updateTimer = TRUE,
                             !.appPhase = "modulesDone"])

setupWebSocketHandlers(st) ==
    onChannel(onChannel(onChannel(st, "air", AppListener),
                        "conveyor", AppListener),
              "system", AppListener)

\* App.init without startDataRefresh()
AppInitFinish_NoPoll ==
    /\ appPhase = "modulesDone"
    /\ Commit([setupWebSocketHandlers(Task("call", "setup", "", 0))
                  EXCEPT !.appPhase = "running"])

\* App.init after initModules(): listeners, then the poll timer
AppInitFinish ==
    /\ appPhase = "modulesDone"
    /\ Commit([startDataRefresh(setupWebSocketHandlers(
                   Task("call", "setup", "", 0)))
                  EXCEPT !.appPhase = "running"])

SocketOpen(s) ==
    /\ sock[s] = "connecting"
    /\ Commit(onOpen([Task("event", "open", "", s)
                         EXCEPT !.sock[s] = "open",
                                !.closesSinceOpen = 0,
                                !.unanswered = 0]))

\* the socket is gone: close event, after an error event when it failed
SocketClose(s, code) ==
    /\ sock[s] \in {"connecting", "open", "closing", "failing"}
    /\ code = NormalClosure => sock[s] \in {"open", "closing"}
    /\ LET s1 == [Task("event", "close", "", code) EXCEPT !.sock[s] = "closed"]
       IN IF code = NormalClosure
          THEN Commit(onClose(s1, code))
          ELSE Commit(onClose(onError(
                 [s1 EXCEPT !.closesSinceOpen =
                                Min(@ + 1, MaxCloses)]),
                 code))

\* the connection is lost, or the peer has started the closing handshake:
\* the socket's readyState is not OPEN any more and its close event is
\* still queued
SocketDrops(s) ==
    /\ sock[s] = "open"
    /\ Commit([Task("env", "drop", "", s) EXCEPT !.sock[s] = "closing"])

\* inbound messages: a data message of a channel, a ping of the server,
\* its pong, a message of a type the client does not know
Messages ==
    [type : {"update"}, channel : Channels, data : Values]
    \cup [type : {"ping", "pong"}, channel : {""}, data : {0}]
    \cup [type : {"other"}, channel : Channels \cup {""}, data : {0}]

SocketMessage(s, msg) ==
    /\ sock[s] = "open"
    /\ Commit(wsOnmessage(
          [Task("message", msg.type, msg.channel, msg.data)
              EXCEPT !.unanswered = IF msg.type = "pong" THEN 0 ELSE @],
          msg))

\* the timeout set by scheduleReconnect fires
ReconnectTimerFires(s) ==
    /\ reconnectTimers > 0
    /\ s \in NewSocket(Cur)
    /\ LET s1 == [Task("event", "reconnectTimer", "", 0)
                  EXCEPT !.reconnectTimers = @ - 1]
       IN IF s1.token THEN Commit(connect(s1, s)) ELSE Commit(s1)

PingTick ==
    /\ pingTimers > 0
    /\ LET s1 == Task("event", "pingTick", "", 0)
           s2 == IF s1.isConnected THEN send(s1, "ping", "") ELSE s1
       IN Commit([s2 EXCEPT !.unanswered = @ + Len(s2.effects) - 1])

Connect(s) ==
    /\ appPhase # "boot"
    /\ s \in NewSocket(Cur)
    /\ Commit(connect(Task("call", "connect", "", 0), s))

Disconnect ==
    /\ appPhase # "boot"
    /\ Commit(disconnect(Task("call", "disconnect", "", 0)))

Reconnect(s) ==
    /\ appPhase # "boot"
    /\ s \in NewSocket(disconnect(Cur))
    /\ Commit(reconnect(Task("call", "reconnect", "", 0), s))

\* a caller of the public send(message); the value returned is logged
Send ==
    /\ appPhase # "boot"
    /\ LET s1 == Task("call", "send", "", 0)
       IN Commit(Emit(send(s1, "data", ""),
                      Eff("return", IF sendOk(s1) THEN "true" ELSE "false",
                          "", 0)))

Subscribe(channel) ==
    /\ appPhase # "boot"
    /\ Commit(subscribe(Task("call", "subscribe", channel, 0), channel))

Unsubscribe(channel) ==
    /\ appPhase # "boot"
    /\ Commit(unsubscribe(Task("call", "unsubscribe", channel, 0), channel))

OnChannel(channel, l) ==
    /\ appPhase # "boot"
    /\ \A i \in 1..Len(channelCallbacks[channel]) :
          channelCallbacks[channel][i] # l
    /\ Commit([onChannel(Task("call", "onChannel", channel, l), channel, l)
                  EXCEPT !.disposers = @ \cup {<<channel, l>>}])

Dispose(channel, l) ==
    /\ <<channel, l>> \in disposers
    /\ Commit(disposer(Task("call", "dispose", channel, l), channel, l))

\* the interval armed by startDataRefresh fires
PollTick ==
    /\ pollTimers > 0
    /\ Commit(refreshAllData(Task("event", "pollTick", "", 0)))

\* the interval armed by AirMonitoringModule.startMonitoring fires
AirTick ==
    /\ updateTimer
    /\ Commit(refreshData(Task("event", "airTick", "air", 0), "air"))

FetchResolve(d, v) ==
    \/ /\ fetching[d] > 0
       /\ Commit(loadFromApi([Task("event", "fetched", d, v)
                                  EXCEPT !.fetching[d] = @ - 1], d, v))
    \/ /\ staleFetch[d] > 0
       /\ Commit(loadFromApi([Task("event", "fetchedStale", d, v)
                                  EXCEPT !.staleFetch[d] = @ - 1], d, v))

\* a failed fetch after which the module falls back to its initial state
FetchFail_LosesState(d) ==
    \/ /\ fetching[d] > 0
       /\ Commit([Task("event", "fetchFailed", d, 0)
                     EXCEPT !.fetching[d] = @ - 1, !.domain[d] = 1])
    \/ /\ staleFetch[d] > 0
       /\ Commit([Task("event", "fetchFailed", d, 0)
                     EXCEPT !.staleFetch[d] = @ - 1, !.domain[d] = 1])

FetchFail(d) ==
    \/ /\ fetching[d] > 0
       /\ Commit([Task("event", "fetchFailed", d, 0)
                     EXCEPT !.fetching[d] = @ - 1])
    \/ /\ staleFetch[d] > 0
       /\ Commit([Task("event", "fetchFailed", d, 0)
                     EXCEPT !.staleFetch[d] = @ - 1])

\* the speed slider moves
SetSpeed(v) ==
    /\ v \in Speeds
    /\ Commit(setSpeed(Task("call", "setSpeed", "conveyor", v), v))

\* GET /conveyor/status answers with speed v, or without a speed, and
\* with the running flag run, or without one
ConveyorStatusLoaded(v, run) ==
    /\ v \in Speeds \cup {NoSpeed}
    /\ CommitRealtime(loadSpeedFromApi(
          Task("event", "statusLoaded", "conveyor", v), v))
    /\ conveyor' = [conveyor EXCEPT !.running = CoalesceFlag(run, @),
                                    !.thrown = FALSE]
    /\ UNCHANGED <<telegram, api, air>>

\* handleWebSocketEvent is called with a status_update carrying speed v,
\* or no speed, and the running flag run, or none
ConveyorStatusUpdate(v, run) ==
    /\ v \in Speeds \cup {NoSpeed}
    /\ CommitRealtime(statusUpdateSpeed(
          Task("call", "status_update", "conveyor", v), v))
    /\ conveyor' = [conveyor EXCEPT !.running = CoalesceFlag(run, @),
                                    !.thrown = FALSE]
    /\ UNCHANGED <<telegram, api, air>>

\* ApiClient.clearTokens() (logout, failed refresh)
TokenCleared ==
    /\ appPhase # "boot"
    /\ token
    /\ CommitRealtime(
          [Task("event", "tokenCleared", "", 0) EXCEPT !.token = FALSE])
    /\ api' = [api EXCEPT !.refreshToken = FALSE]
    /\ UNCHANGED <<telegram, conveyor, air>>

\* ApiClient.saveTokens() (login, refresh)
TokenSaved ==
    /\ ~token
    /\ CommitRealtime(
          [Task("event", "tokenSaved", "", 0) EXCEPT !.token = TRUE])
    /\ api' = [api EXCEPT !.refreshToken = TRUE]
    /\ UNCHANGED <<telegram, conveyor, air>>

\* ------------------------------------------------ TelegramModule actions
\* init up to its await: cacheElements, then loadFromApi asks for the status
TelegramInitStart ==
    /\ telegram.phase = "new"
    /\ telegram' = [telegram EXCEPT !.phase = "loading"]
    /\ UNCHANGED <<realtimeVars, api, conveyor, air>>

\* init after its await. loaded: the status answered, with its connected
\* field c; else loadState merges the stored state, whose token and chat
\* id are cfg and whose connected flag is c (the stored queue is the one in
\* memory). Then the queue processor starts and connect() is called.
TelegramInitResume(loaded, c, cfg) ==
    /\ telegram.phase = "loading"
    /\ loaded => ~cfg
    /\ telegram.statusInflight < MaxStatus
    /\ LET t1 == [telegram EXCEPT !.phase = "ready", !.connected = c,
                                  !.configured = cfg, !.stopped = FALSE]
           t2 == startQueueProcessor(t1)
       IN  telegram' = IF t2.configured THEN telegramConnect(t2) ELSE t2
    /\ UNCHANGED <<realtimeVars, api, conveyor, air>>

\* saveSettings: the form gives a token and a chat id (cfg) or leaves one
\* of them empty
TelegramSaveSettings(cfg) ==
    /\ telegram.phase = "ready"
    /\ telegram.statusInflight < MaxStatus
    /\ LET t1 == [telegram EXCEPT !.configured = cfg, !.stopped = FALSE]
       IN  telegram' = IF t1.configured THEN telegramConnect(t1) ELSE t1
    /\ UNCHANGED <<realtimeVars, api, conveyor, air>>

\* the status request of a connect() settles
TelegramStatusSettles(what) ==
    /\ telegram.statusInflight > 0
    /\ telegram' = telegramConnectResume(telegram, what)
    /\ UNCHANGED <<realtimeVars, api, conveyor, air>>

\* a reconnect timeout fires: the one reconnectTimeout names, or one that
\* is pending beside it
TelegramReconnectFires(named) ==
    /\ telegram.timers > 0
    /\ IF named THEN telegram.handleArmed
                ELSE telegram.timers > (IF telegram.handleArmed THEN 1 ELSE 0)
    /\ telegram.statusInflight < MaxStatus
    /\ telegram' = telegramConnect(
           [telegram EXCEPT !.timers = @ - 1,
                            !.handleArmed = IF named THEN FALSE ELSE @])
    /\ UNCHANGED <<realtimeVars, api, conveyor, air>>

TelegramDisconnect ==
    /\ telegram.phase = "ready"
    /\ telegram' = [telegramDisconnect(telegram) EXCEPT !.stopped = TRUE]
    /\ UNCHANGED <<realtimeVars, api, conveyor, air>>

\* sendMessage (or sendAlert) with message m, the next one not yet used
TelegramSendMessage(m, enabled) ==
    /\ m = Cardinality(telegram.accepted \cup telegram.sending
                       \cup telegram.delivered \cup telegram.failed) + 1
    /\ m \in MessageIds
    /\ telegram' = sendMessage(telegram, m, enabled)
    /\ UNCHANGED <<realtimeVars, api, conveyor, air>>

\* the queue interval ticks
TelegramQueueTick ==
    /\ telegram.queueTimers > 0
    /\ telegram' = processQueue(telegram)
    /\ UNCHANGED <<realtimeVars, api, conveyor, air>>

\* sendMessageToApi after its await: the request succeeded
TelegramSendResolves(m) ==
    /\ m \in telegram.sending
    /\ telegram' = [telegram EXCEPT !.sending = @ \ {m},
                                    !.delivered = @ \cup {m}]
    /\ UNCHANGED <<realtimeVars, api, conveyor, air>>

\* sendMessageToApi after its await: the request failed; the catch block
\* logs the error and returns false
TelegramSendRejects(m) ==
    /\ m \in telegram.sending
    /\ telegram' = [telegram EXCEPT !.sending = @ \ {m},
                                    !.failed = @ \cup {m}]
    /\ UNCHANGED <<realtimeVars, api, conveyor, air>>

\* ----------------------------------------------------- ApiClient actions
\* request(endpoint, options) is called; r is the next call
ApiRequest(r, requireAuth) ==
    /\ api.req[r].pc = "idle"
    /\ \A q \in RequestIds : q < r => api.req[q].pc # "idle"
    /\ ApiCommit(requestLoop(
           [ApiCur EXCEPT !.req[r].requireAuth = requireAuth], r))

ApiFetchSettles(r, o) ==
    /\ api.req[r].pc = "fetch"
    /\ ApiCommit(requestFetched(ApiCur, r, o))

ApiRefreshSettles(r, o) ==
    /\ api.req[r].pc = "refresh"
    /\ ApiCommit(requestRefreshed(ApiCur, r, o))

ApiSleepEnds(r) ==
    /\ api.req[r].pc = "sleep"
    /\ ApiCommit(requestSlept(ApiCur, r))

\* ApiClient.clearTokens() from the public API (AuthModule)
ApiClearTokens ==
    /\ token \/ api.refreshToken
    /\ ApiCommit(clearTokens(ApiCur))

\* ---------------------------------------- ConveyorModule start and stop
\* start() up to its await
ConveyorStart ==
    /\ ~conveyor.running
    /\ conveyor.starting < MaxPending
    /\ conveyor' = [conveyor EXCEPT !.starting = @ + 1, !.thrown = FALSE]
    /\ UNCHANGED <<realtimeVars, telegram, api, air>>

\* start() after its await; ok: POST /conveyor/start succeeded
ConveyorStartResume(ok) ==
    /\ conveyor.starting > 0
    /\ conveyor' = startResume(conveyor, ok)
    /\ UNCHANGED <<realtimeVars, telegram, api, air>>

\* stop() up to its await
ConveyorStop ==
    /\ conveyor.running
    /\ conveyor.stopping < MaxPending
    /\ conveyor' = [conveyor EXCEPT !.stopping = @ + 1, !.thrown = FALSE]
    /\ UNCHANGED <<realtimeVars, telegram, api, air>>

\* stop() after its await
ConveyorStopResume ==
    /\ conveyor.stopping > 0
    /\ conveyor' = stopResume(conveyor)
    /\ UNCHANGED <<realtimeVars, telegram, api, air>>

\* the interval slider, or setInterval of the public API
ConveyorSetInterval(v) ==
    /\ v \in IntervalArgs
    /\ conveyor' = setInterval([conveyor EXCEPT !.thrown = FALSE], v, MaxStack)
    /\ UNCHANGED <<realtimeVars, telegram, api, air>>

\* ------------------------------------------- AirMonitoringModule actions
\* updateStatuses: the status of the parameter is computed from its value
AirUpdateStatuses ==
    /\ air' = [air EXCEPT
                 !.status = getStatus(air.value, paramMin[air.param],
                                      paramMax[air.param]),
                 !.computed = TRUE]
    /\ UNCHANGED <<realtimeVars, telegram, api, conveyor>>

\* handleWebSocketEvent, case 'sensor_update': a value v of the parameter
AirSensorData(v) ==
    /\ v \in SensorValues(air.param)
    /\ air' = [air EXCEPT
                 !.value = v,
                 !.status = getStatus(v, paramMin[air.param],
                                      paramMax[air.param]),
                 !.computed = TRUE]
    /\ UNCHANGED <<realtimeVars, telegram, api, conveyor>>

\* ---------------------------------------------------------- specifications
\* The connection and its reconnection controller: socket events, timers
\* and the public connect/disconnect/reconnect, before App has registered
\* its listeners.
NextConn ==
    \/ \E s \in Created : AppInitStart(s)
    \/ \E s \in SockIds : SocketOpen(s)
    \/ \E s \in SockIds, code \in CloseCodes : SocketClose(s, code)
    \/ \E s \in Created : ReconnectTimerFires(s)
    \/ \E s \in Created : Connect(s)
    \/ Disconnect
    \/ \E s \in Created : Reconnect(s)
    \/ TokenCleared
    \/ TokenSaved

SpecConn == Init /\ [][NextConn]_vars

\* The liveness monitor: the ping interval of an open connection, the
\* server's pings and pongs, and the ways the connection ends.
NextPing ==
    \/ \E s \in SockIds : AppInitStart(s)
    \/ \E s \in SockIds : SocketOpen(s)
    \/ \E s \in SockIds, code \in CloseCodes : SocketClose(s, code)
    \/ \E s \in SockIds, msg \in Messages :
          msg.type \in {"ping", "pong"} /\ SocketMessage(s, msg)
    \/ \E s \in SockIds : ReconnectTimerFires(s)
    \/ PingTick
    \/ Disconnect
    \/ \E s \in SockIds : Connect(s)

SpecPing == Init /\ [][NextPing]_vars

\* The transport: callers of send() while the socket opens, drops and is
\* closed.
NextSend ==
    \/ \E s \in SockIds : AppInitStart(s)
    \/ \E s \in SockIds : SocketOpen(s)
    \/ \E s \in SockIds : SocketDrops(s)
    \/ \E s \in SockIds, code \in CloseCodes : SocketClose(s, code)
    \/ \E s \in SockIds : ReconnectTimerFires(s)
    \/ Send
    \/ Disconnect
    \/ \E s \in SockIds : Connect(s)

SpecSend == Init /\ [][NextSend]_vars

\* The conveyor speed: the slider, the status the API reports and the
\* status updates pushed by the server.
NextConveyor ==
    \/ \E v \in Speeds : SetSpeed(v)
    \/ \E v \in Speeds \cup {NoSpeed}, run \in Flags :
          ConveyorStatusLoaded(v, run)
    \/ \E v \in Speeds \cup {NoSpeed}, run \in Flags :
          ConveyorStatusUpdate(v, run)

SpecConveyor == Init /\ [][NextConveyor]_vars

\* The poll timer of App while connection attempts fail: App.init, the
\* system listener, sockets that open, fail and close, and the retries.
NextPoll ==
    \/ \E s \in SockIds : AppInitStart(s)
    \/ AirModuleInit
    \/ AppInitFinish
    \/ \E s \in SockIds : SocketOpen(s)
    \/ \E s \in SockIds, code \in CloseCodes : SocketClose(s, code)
    \/ \E s \in SockIds : ReconnectTimerFires(s)

SpecPoll == Init /\ [][NextPoll]_vars

\* The subscription registry: consumers register and dispose listeners
\* while the connection opens, drops, is closed by disconnect() and is
\* re-established by the reconnect timer. The endpoint is reachable: a
\* socket that is connecting opens.
NextSub ==
    \/ \E s \in SockIds : AppInitStart(s)
    \/ \E s \in SockIds : SocketOpen(s)
    \/ \E s \in SockIds, code \in CloseCodes :
          sock[s] # "connecting" /\ SocketClose(s, code)
    \/ \E s \in SockIds, msg \in Messages : SocketMessage(s, msg)
    \/ \E s \in SockIds : ReconnectTimerFires(s)
    \/ Disconnect
    \/ \E c \in Channels : Subscribe(c)
    \/ \E c \in Channels : Unsubscribe(c)
    \/ \E c \in ConsumerChannels, l \in Listeners : OnChannel(c, l)
    \/ \E c \in ConsumerChannels, l \in Listeners : Dispose(c, l)

SpecSub == Init /\ [][NextSub]_vars

\* The fallback between push and poll: App.init, the system listener, the
\* poll timers and the fetches they start. Nothing in the application
\* calls disconnect() or reconnect(); the endpoint is reachable.
NextApp ==
    \/ \E s \in SockIds : AppInitStart(s)
    \/ AirModuleInit
    \/ AppInitFinish
    \/ \E s \in SockIds : SocketOpen(s)
    \/ \E s \in SockIds, code \in CloseCodes :
          sock[s] # "connecting" /\ SocketClose(s, code)
    \/ \E s \in SockIds, msg \in Messages : SocketMessage(s, msg)
    \/ \E s \in SockIds : ReconnectTimerFires(s)
    \/ PollTick
    \/ AirTick
    \/ \E d \in Channels, v \in Values : FetchResolve(d, v)
    \/ \E d \in Channels : FetchFail(d)

SpecApp == Init /\ [][NextApp]_vars

\* The Telegram relay: init, the settings form, the status requests of
\* connect(), the reconnect timeout, disconnect(), and the messages that
\* are sent at once or through the queue.
NextTelegram ==
    \/ TelegramInitStart
    \/ \E loaded \in BOOLEAN, c \in BOOLEAN, cfg \in BOOLEAN :
          TelegramInitResume(loaded, c, cfg)
    \/ \E cfg \in BOOLEAN : TelegramSaveSettings(cfg)
    \/ \E what \in {"connected", "disconnected", "error"} :
          TelegramStatusSettles(what)
    \/ \E named \in BOOLEAN : TelegramReconnectFires(named)
    \/ TelegramDisconnect
    \/ \E m \in MessageIds, enabled \in BOOLEAN :
          TelegramSendMessage(m, enabled)
    \/ TelegramQueueTick
    \/ \E m \in MessageIds : TelegramSendResolves(m)
    \/ \E m \in MessageIds : TelegramSendRejects(m)

SpecTelegram == Init /\ [][NextTelegram]_vars

\* ApiClient: calls of request, the fetches, the sleeps between retries
\* and the token refreshes they make, and clearTokens().
NextApi ==
    \/ \E r \in RequestIds, requireAuth \in BOOLEAN : ApiRequest(r, requireAuth)
    \/ \E r \in RequestIds, o \in FetchOutcomes : ApiFetchSettles(r, o)
    \/ \E r \in RequestIds, o \in RefreshOutcomes : ApiRefreshSettles(r, o)
    \/ \E r \in RequestIds : ApiSleepEnds(r)
    \/ ApiClearTokens

SpecApi == Init /\ [][NextApi]_vars

\* The conveyor's run state: start(), stop(), the interval slider and the
\* status updates pushed by the server.
NextConveyorRun ==
    \/ ConveyorStart
    \/ \E ok \in BOOLEAN : ConveyorStartResume(ok)
    \/ ConveyorStop
    \/ ConveyorStopResume
    \/ \E v \in IntervalArgs : ConveyorSetInterval(v)
    \/ \E run \in Flags : ConveyorStatusUpdate(NoSpeed, run)

SpecConveyorRun == Init /\ [][NextConveyorRun]_vars

\* The status of an air parameter: any parameter with any value the sensor
\* reports, and the statuses computed from the values.
InitStatus ==
    /\ InitBase
    /\ \E p \in Params : \E v \in SensorValues(p) :
          air = [param |-> p, value |-> v, status |-> "ok",
                 computed |-> FALSE]

MaxSensorValue == 1000 + MaxExcess
NextStatus ==
    \/ AirUpdateStatuses
    \/ \E v \in 0..MaxSensorValue : AirSensorData(v)

SpecStatus == InitStatus /\ [][NextStatus]_vars

\* ------------------------------------------------------------- properties
\* the task of the step is of kind k, type a
TaskIs(k, a) ==
    /\ effects' # <<>>
    /\ effects'[1].k = k
    /\ effects'[1].a = a

\* number of entries e of the effects log of the step
Count(log, e) == Cardinality({i \in DOMAIN log : log[i] = e})

\* a close event with a code other than 1000 is handled in the step
AbnormalCloseStep ==
    /\ TaskIs("event", "close")
    /\ effects'[1].n # 1000

\* a periodic refresh of domain d is armed: App's poll timer, or the
\* module's own timer
PollArmed(d) == pollTimers > 0 \/ (d = "air" /\ updateTimer)

\* C1: when a socket opens while topic T is in the subscribed set (T was
\* subscribed on an earlier connection that was lost), the open handler
\* sends exactly one subscribe message for T on the new socket.
C1_ResubscribedOnceOnReopen ==
    [][\A s \in SockIds, T \in Channels :
          (sock[s] = "connecting" /\ sock'[s] = "open"
             /\ T \in subscribedChannels)
          => Count(effects', Eff("send", "subscribe", T, s)) = 1]_vars

\* C2: a poll fetch that was in flight when push took over the domain (a
\* push message applied, or the mode flipped to Push) does not change the
\* domain's state when it resolves.
C2_StaleFetchDiscarded ==
    [][\A d \in Channels :
          (TaskIs("event", "fetchedStale") /\ effects'[1].c = d)
          => domain'[d] = domain[d]]_vars

\* C3: while the connection is open and a domain's topic is subscribed, no
\* periodic refresh timer of that domain is armed.
C3_NoPollWhilePush ==
    \A d \in Channels :
        (isConnected /\ ws # 0 /\ sock[ws] = "open"
           /\ d \in subscribedChannels)
        => ~PollArmed(d)

\* C4: at most one reconnect timeout is pending at any instant.
C4_SingleReconnectTimer == reconnectTimers <= 1

\* the delays of the claim: 3000, 6000, 12000, 24000, 30000, 30000, ...
ClaimedDelay(n) ==
    IF n < 4 THEN <<3000, 6000, 12000, 24000>>[n + 1] ELSE 30000

\* C5 (as claimed): the n-th consecutive abnormal close since the last
\* open event, n = 0, 1, 2, ..., schedules a reconnect with delay
\* 3000, 6000, 12000, 24000, 30000, 30000, ... and adds one to the
\* attempt counter (stated for the n that are counted exactly).
C5_DelayOfNthClose ==
    [][(AbnormalCloseStep /\ closesSinceOpen < MaxCloses)
          => /\ reconnectTimers' = reconnectTimers + 1
             /\ lastDelay' = ClaimedDelay(closesSinceOpen)
             /\ reconnectAttempts' = reconnectAttempts + 1]_vars

\* C5 (amended): an abnormal close handled while the attempt counter is
\* a < 10 schedules one reconnect with delay 3000, 6000, 12000, 24000,
\* 30000, 30000, ... for a = 0, 1, 2, ... and adds one to the counter;
\* with the counter at 10 it schedules nothing and leaves the counter.
C5_DelayOfAttempt ==
    [][AbnormalCloseStep
          => IF reconnectAttempts < 10
             THEN /\ reconnectTimers' = reconnectTimers + 1
                  /\ lastDelay' = ClaimedDelay(reconnectAttempts)
                  /\ Count(effects',
                           Eff("timer", "reconnect", "",
                               ClaimedDelay(reconnectAttempts))) = 1
                  /\ reconnectAttempts' = reconnectAttempts + 1
             ELSE /\ reconnectTimers' = reconnectTimers
                  /\ reconnectAttempts' = reconnectAttempts]_vars

\* an abnormal close has just scheduled a retry at the capped delay
C5_Witness ==
    /\ effects # <<>>
    /\ effects[1] = Eff("event", "close", "", 1006)
    /\ reconnectAttempts = 6
    /\ lastDelay = 30000
    /\ reconnectTimers > 0

\* C6: when the ping timer fires on an open connection and the ping sent
\* before has had no pong, the connection is force-closed: it does not
\* stay connected.
C6_StaleConnectionClosed ==
    [][(/\ isConnected
        /\ unanswered > 0
        /\ TaskIs("event", "pingTick"))
          => ~isConnected']_vars

\* C7: an inbound message of channel T on an open socket is delivered
\* exactly once to every listener registered for T.
C7_DeliveredToEveryListener ==
    [][\A T \in Channels :
          (effects' # <<>> /\ effects'[1].k = "message"
             /\ effects'[1].c = T)
          => \A i \in DOMAIN channelCallbacks[T] :
                Cardinality({j \in DOMAIN effects' :
                    /\ effects'[j].k \in {"cb", "throw"}
                    /\ effects'[j].c = T
                    /\ effects'[j].n = channelCallbacks[T][i]}) = 1]_vars

\* C8: when a listener of topic T throws while a message of T is
\* dispatched, every other listener of T still receives the message and
\* the connection and subscription state is as before.
C8_ListenerIsolation ==
    [][\A T \in Channels :
          (/\ effects' # <<>> /\ effects'[1].k = "message"
           /\ effects'[1].c = T
           /\ \E i \in DOMAIN channelCallbacks[T] :
                 channelCallbacks[T][i] \in Throwing)
          => /\ \A i \in DOMAIN channelCallbacks[T] :
                   channelCallbacks[T][i] \notin Throwing
                   => Count(effects', Eff("cb", effects'[1].a, T,
                                          channelCallbacks[T][i])) = 1
             /\ UNCHANGED <<ws, sock, isConnected, isConnecting,
                            reconnectAttempts, subscribedChannels,
                            channelCallbacks>>]_vars

\* C9: the periodic refresh of a domain is stopped only in a step that
\* leaves the connection open with the domain's topic subscribed.
C9_PushOnlyWhenSubscribed ==
    [][\A d \in Channels :
          (PollArmed(d) /\ ~PollArmed(d)')
          => (isConnected' /\ d \in subscribedChannels')]_vars

\* C10 (as claimed): every close event leaves every domain in Poll mode
\* with the 10 s poll timer armed.
C10_PollAfterEveryClose ==
    [][TaskIs("event", "close")
          => (pollTimers' > 0 /\ ~useWebSocket')]_vars

\* C10 (amended): once App has registered its 'system' listener, every
\* close event, whatever its code, sets useWebSocket to false and leaves
\* exactly one poll timer of period 10000 ms armed, and an armed poll
\* timer is stopped only by an open event.
C10_PollAfterCloseOnceListening ==
    [][/\ (TaskIs("event", "close") /\ channelCallbacks["system"] # <<>>)
             => /\ pollTimers' = 1
                /\ dataRefreshInterval'
                /\ ~useWebSocket'
                /\ Count(effects', Eff("timer", "poll", "", 10000)) = 1
       /\ (pollTimers > 0 /\ pollTimers' = 0)
             => TaskIs("event", "open")]_vars

\* a close event has been handled after an open one had stopped polling
C10_Witness ==
    /\ effects # <<>>
    /\ effects[1].k = "event" /\ effects[1].a = "close"
    /\ appPhase = "running"
    /\ ~isConnected
    /\ ~useWebSocket
    /\ pollTimers = 1
    /\ Len(effects) > 1

\* number of control messages of the given type for channel T the step
\* has sent on a socket
Sent(log, type, T) ==
    Cardinality({i \in DOMAIN log :
        log[i].k = "send" /\ log[i].a = type /\ log[i].c = T})

\* the step has handed no control message to a socket
NothingSent(log) ==
    \A i \in DOMAIN log : log[i].k \notin {"send", "drop"}

\* the step is the call of the public function a with channel T
CallOf(a, T) == TaskIs("call", a) /\ effects'[1].c = T

\* C11: subscribe(T) with T in the subscribed set sends nothing and leaves
\* the set as it is; subscribe(T) with T not in the set sends one subscribe
\* message for T and puts T into the set.
C11_SubscribeIdempotentElseRecorded ==
    [][\A T \in Channels :
          CallOf("subscribe", T)
          => IF T \in subscribedChannels
             THEN NothingSent(effects') /\ UNCHANGED subscribedChannels
             ELSE /\ Sent(effects', "subscribe", T) = 1
                  /\ subscribedChannels' = subscribedChannels \cup {T}]_vars

\* C12: unsubscribe(T) called while a listener is registered for T sends
\* no unsubscribe message and leaves T in the subscribed set.
C12_UnsubscribeKeepsListenedTopic ==
    [][\A T \in Channels :
          (CallOf("unsubscribe", T) /\ channelCallbacks[T] # <<>>)
          => /\ NothingSent(effects')
             /\ UNCHANGED subscribedChannels]_vars

\* the module's connection and subscription state
registry == <<ws, sock, isConnected, isConnecting, reconnectAttempts,
              subscribedChannels, channelCallbacks, messageHandlers,
              pingInterval, pingTimers, reconnectTimers>>

\* the step runs unsubscribe(T): the public function, or the disposer of
\* a listener of T
UnsubscribeOf(T) == CallOf("unsubscribe", T) \/ CallOf("dispose", T)

\* C13 (as claimed): unsubscribe(T) called, directly or by a disposer
\* invoked again, while no listener is registered for T sends no control
\* message and changes no state.
C13_NoOpWithoutListeners ==
    [][\A T \in Channels :
          (UnsubscribeOf(T) /\ channelCallbacks[T] = <<>>)
          => NothingSent(effects') /\ UNCHANGED registry]_vars

\* C13 (amended): unsubscribe(T) called, directly or by a disposer, while
\* T is not in the subscribed set sends no control message and leaves the
\* subscribed set and the connection as they are (a disposer only removes
\* its listener); a direct unsubscribe(T) with T in the set and the socket
\* open sends one unsubscribe message and removes T even when no listener
\* is registered for T.
C13_NoOpWhenNotSubscribed ==
    [][\A T \in Channels :
          /\ (UnsubscribeOf(T) /\ T \notin subscribedChannels)
                => /\ NothingSent(effects')
                   /\ UNCHANGED <<ws, sock, isConnected, isConnecting,
                                  reconnectAttempts, subscribedChannels,
                                  messageHandlers, pingInterval,
                                  pingTimers, reconnectTimers>>
                   /\ channelCallbacks[T] = <<>>
                         => UNCHANGED channelCallbacks
          /\ (/\ CallOf("unsubscribe", T)
              /\ T \in subscribedChannels
              /\ isConnected /\ ws # 0 /\ sock[ws] = "open")
                => /\ Sent(effects', "unsubscribe", T) = 1
                   /\ subscribedChannels' = subscribedChannels \ {T}]_vars

\* a disposer has run on an open connection with its listener already
\* removed and the topic not subscribed: nothing but the call happened
C13_Witness ==
    /\ Len(effects) = 1
    /\ effects[1].k = "call" /\ effects[1].a = "dispose"
    /\ effects[1].c = "air"
    /\ channelCallbacks["air"] = <<>>
    /\ "air" \notin subscribedChannels
    /\ isConnected /\ ws # 0 /\ sock[ws] = "open"

\* the listeners registered for a topic
Registered(cbs) == {cbs[i] : i \in DOMAIN cbs}

\* C14: onChannel(T, l) registers l and leaves T subscribed; the disposer
\* removes l, and it sends one unsubscribe message for T and removes T from
\* the subscribed set exactly when l was the last listener of T.
C14_DisposerUnsubscribesOnLast ==
    [][\A T \in Channels, l \in Listeners :
          /\ (CallOf("onChannel", T) /\ effects'[1].n = l)
                => /\ l \in Registered(channelCallbacks'[T])
                   /\ T \in subscribedChannels'
          /\ (CallOf("dispose", T) /\ effects'[1].n = l)
                => /\ l \notin Registered(channelCallbacks'[T])
                   /\ IF Registered(channelCallbacks[T]) = {l}
                      THEN /\ Sent(effects', "unsubscribe", T) = 1
                           /\ T \notin subscribedChannels'
                      ELSE /\ NothingSent(effects')
                           /\ UNCHANGED subscribedChannels]_vars

\* C15: when a socket opens while topic T is tracked, a subscribe message
\* for T is sent on it before the notification of the user and before any
\* 'connected' callback of the step.
C15_ResubscribeBeforeConsumers ==
    [][\A s \in SockIds, T \in Channels :
          (sock[s] = "connecting" /\ sock'[s] = "open"
             /\ T \in subscribedChannels)
          => \E i \in DOMAIN effects' :
                /\ effects'[i] = Eff("send", "subscribe", T, s)
                /\ \A j \in DOMAIN effects' :
                      effects'[j].k \in {"notify", "cb", "throw"}
                      => i < j]_vars

\* the step has scheduled n reconnect timeouts
Scheduled(n) ==
    /\ reconnectTimers' = reconnectTimers + n
    /\ Cardinality({i \in DOMAIN effects' :
           effects'[i].k = "timer" /\ effects'[i].a = "reconnect"}) = n

\* C16: a close event with a code other than 1000, handled while the
\* attempt counter is below 10, schedules one reconnect timeout; a close
\* event with code 1000 schedules none.
C16_AbnormalCloseSchedulesRetry ==
    [][TaskIs("event", "close")
          => IF effects'[1].n # NormalClosure
                /\ reconnectAttempts < MaxReconnectAttempts
             THEN Scheduled(1)
             ELSE Scheduled(0)]_vars

\* a close event with code 1000 has been handled and has scheduled
\* nothing, while the timeout of an earlier retry is pending
C16_Witness ==
    /\ effects = <<Eff("event", "close", "", NormalClosure)>>
    /\ reconnectTimers = 1
    /\ reconnectAttempts = 1
    /\ lastDelay = 3000

\* C17: the attempt counter is 0 after every open event, is one more after
\* every abnormal close that schedules a retry, decreases only in an open
\* event or in reconnect(), and is within 0..10.
C17_AttemptCounter ==
    [][/\ TaskIs("event", "open") => reconnectAttempts' = 0
       /\ (AbnormalCloseStep /\ reconnectTimers' > reconnectTimers)
             => reconnectAttempts' = reconnectAttempts + 1
       /\ reconnectAttempts' < reconnectAttempts
             => TaskIs("event", "open") \/ TaskIs("call", "reconnect")
       /\ reconnectAttempts \in 0..MaxReconnectAttempts
       /\ reconnectAttempts' \in 0..MaxReconnectAttempts]_vars

\* an open event has reset the counter that two retries had raised
C17_Witness ==
    /\ effects # <<>>
    /\ effects[1].k = "event" /\ effects[1].a = "open"
    /\ reconnectAttempts = 0
    /\ lastDelay = 6000
    /\ isConnected

\* the step has shown the user or told a listener something other than
\* the 'connected' and 'disconnected' of every open and close
Surfaced(log) ==
    \E i \in DOMAIN log :
        /\ log[i].k \in {"notify", "cb", "throw"}
        /\ log[i].a \notin {"connected", "disconnected"}

\* C18: an abnormal close handled with the attempt counter at 10 schedules
\* no retry and surfaces a terminal failure: a notification or a callback
\* other than those of every transient disconnect.
C18_TerminalFailureSurfaced ==
    [][(AbnormalCloseStep /\ reconnectAttempts = MaxReconnectAttempts)
          => Scheduled(0) /\ Surfaced(effects')]_vars

\* C19: reconnect() called with a token, the attempt counter at 10 and no
\* socket alive starts a connection attempt with the counter reset: either
\* a socket is connecting and the counter is 0, or the socket could not be
\* created and the first retry, with delay 3000, is scheduled; and an
\* abnormal close handled with the counter at 0 schedules a retry with
\* delay 3000.
C19_ManualReconnectRevives ==
    [][/\ (/\ TaskIs("call", "reconnect")
           /\ reconnectAttempts = MaxReconnectAttempts
           /\ token
           /\ \A s \in SockIds : sock[s] = "closed")
             => \/ /\ reconnectAttempts' = 0
                   /\ isConnecting' /\ ~isConnected'
                   /\ ws' # 0 /\ sock'[ws'] = "connecting"
                   /\ Scheduled(0)
                \/ /\ reconnectAttempts' = 1
                   /\ ~isConnecting' /\ ~isConnected'
                   /\ lastDelay' = reconnectInterval
                   /\ Scheduled(1)
       /\ (AbnormalCloseStep /\ reconnectAttempts = 0)
             => /\ lastDelay' = reconnectInterval
                /\ reconnectAttempts' = 1
                /\ Scheduled(1)]_vars

\* reconnect() has been called with the counter at the limit: the counter
\* is 0 and a new socket is connecting
C19_Witness ==
    /\ effects = <<Eff("call", "reconnect", "", 0)>>
    /\ exhaustedBefore
    /\ reconnectAttempts = 0
    /\ isConnecting
    /\ ws # 0 /\ sock[ws] = "connecting"
    /\ reconnectTimers = 0

\* C20: after disconnect() returns, no ping interval is armed and no
\* reconnect timeout is pending.
C20_NoTimersAfterDisconnect ==
    [][TaskIs("call", "disconnect")
          => pingTimers' = 0 /\ reconnectTimers' = 0]_vars

\* the sockets that are connecting or open
Live == {s \in SockIds : sock[s] \in {"connecting", "open"}}

\* C21: at most one socket is connecting or open at any instant.
C21_SingleLiveSocket == Cardinality(Live) <= 1

\* C24: an armed ping interval implies isConnected, and while the socket
\* the module holds is open its ping interval is armed.
C24_PingOnlyWhileOpen ==
    /\ pingTimers > 0 => isConnected
    /\ (ws # 0 /\ sock[ws] = "open") => (pingInterval /\ pingTimers > 0)

\* C25: the handling of an inbound 'ping' on the open connection sends
\* exactly one 'pong'.
C25_PingAnswered ==
    [][(/\ TaskIs("message", "ping")
        /\ isConnected /\ ws # 0 /\ sock[ws] = "open")
          => Sent(effects', "pong", "") = 1]_vars

\* what the call of the step returned
Returned(log) == log[Len(log)].a

\* C22: send() returns false and hands nothing to a socket when the
\* connection is not open, and it returns true only when the message was
\* handed to the open socket.
C22_SendResult ==
    [][TaskIs("call", "send")
          => LET open == ws # 0 /\ sock[ws] = "open"
             IN /\ ~open => /\ Returned(effects') = "false"
                            /\ NothingSent(effects')
                /\ Returned(effects') = "true"
                      => /\ open
                         /\ Sent(effects', "data", "") = 1]_vars

\* the step has told its caller or the user of an outcome: a value
\* returned, an exception, a notification or a callback
Reported(log) ==
    \E i \in DOMAIN log :
        log[i].k \in {"return", "throw", "notify", "cb"}

\* C28: connect() called without a token creates no socket, leaves the
\* connection state and the timers as they are, and reports the failure
\* to its caller.
C28_ConnectWithoutToken ==
    [][(TaskIs("call", "connect") /\ ~token)
          => /\ UNCHANGED <<ws, sock, isConnected, isConnecting,
                            reconnectAttempts, reconnectTimers>>
             /\ Reported(effects')]_vars

\* the step has called close() on a socket
ClosedASocket(log) == \E i \in DOMAIN log : log[i].k = "close"

\* C23 (as claimed): disconnect() called on a connection that is already
\* closed (not connected, not connecting, no socket or a closed one)
\* changes no state and calls close() on no socket.
C23_DisconnectOnClosedIsNoOp ==
    [][(/\ TaskIs("call", "disconnect")
        /\ ~isConnected /\ ~isConnecting
        /\ (ws = 0 \/ sock[ws] = "closed"))
          => UNCHANGED registry /\ ~ClosedASocket(effects')]_vars

\* C23 (amended): after disconnect() has returned, one more call would
\* change no state and close no socket; and a call made while the module
\* holds no socket, is not connected or connecting and tracks no topic
\* changes no state and closes no socket.
C23_DisconnectTwice ==
    [][TaskIs("call", "disconnect")
          => /\ disconnect(Cur)' = Cur'
             /\ (/\ ws = 0 /\ ~isConnected /\ ~isConnecting
                 /\ subscribedChannels = {})
                   => UNCHANGED registry /\ ~ClosedASocket(effects')]_vars

\* disconnect() has been called with no socket held, after an earlier
\* call had closed the open socket
C23_Witness ==
    /\ effects = <<Eff("call", "disconnect", "", 0)>>
    /\ ws = 0
    /\ \E s \in SockIds : sock[s] = "closing"
    /\ ~isConnected /\ ~isConnecting
    /\ subscribedChannels = {}

\* C29: an inbound message of a type the client does not know, on no
\* channel or on a channel without listeners, throws nothing, sends
\* nothing and leaves the connection, the subscriptions, the reconnection
\* controller and the ping interval as they are.
C29_UnknownTypeIgnored ==
    [][(/\ TaskIs("message", "other")
        /\ \/ effects'[1].c = ""
           \/ channelCallbacks[effects'[1].c] = <<>>)
          => /\ Len(effects') = 1
             /\ UNCHANGED <<ws, sock, isConnected, isConnecting,
                            reconnectAttempts, reconnectTimers,
                            subscribedChannels, channelCallbacks,
                            pingInterval, pingTimers>>]_vars

\* a message of an unknown type has been handled on the open connection
C29_Witness ==
    /\ effects = <<Eff("message", "other", "", 0)>>
    /\ isConnected /\ ws # 0 /\ sock[ws] = "open"
    /\ pingTimers = 1

C27_FailedFetchChangesNothing ==
    [][/\ TaskIs("event", "fetchFailed")
             => UNCHANGED <<domain, useWebSocket, dataRefreshInterval,
                            pollTimers, updateTimer>>
       /\ \A d \in Channels :
             (TaskIs("event", "pollTick")
                /\ fetching[d] + staleFetch[d] < MaxInflight)
             => fetching'[d] = fetching[d] + 1]_vars

\* a fetch of the conveyor status has failed after an earlier one had
\* been applied: the state applied is still shown, the poll timer is armed
C27_Witness ==
    /\ effects = <<Eff("event", "fetchFailed", "conveyor", 0)>>
    /\ domain["conveyor"] = 2
    /\ pollTimers = 1
    /\ dataRefreshInterval

\* C30: the conveyor speed is within 0.5..3 m/s in every state.
C30_SpeedInRange == speed \in speedMin..speedMax

\* C31: whenever the connection is open and a listener is registered for
\* topic T, T is in the subscribed set.
C31_ListenedTopicSubscribed ==
    \A T \in Channels :
        (isConnected /\ ws # 0 /\ sock[ws] = "open"
           /\ channelCallbacks[T] # <<>>)
        => T \in subscribedChannels

\* socket s delivers its open or its close event in the step
EventOf(s) ==
    \/ TaskIs("event", "open") /\ sock[s] = "connecting" /\ sock'[s] = "open"
    \/ TaskIs("event", "close") /\ sock[s] # "closed" /\ sock'[s] = "closed"

\* C32: an open or close event of a socket that is not the one the module
\* holds leaves isConnected, isConnecting and the ping interval as they
\* are and schedules no reconnect.
C32_SupersededSocketIgnored ==
    [][\A s \in SockIds :
          (EventOf(s) /\ s # ws)
          => UNCHANGED <<isConnected, isConnecting, pingInterval,
                         pingTimers, reconnectTimers>>]_vars

\* C33: isConnected and isConnecting are never both true; isConnected
\* becomes true only in an open event, and it is false after every close
\* event, disconnect() and reconnect().
C33_ConnectedFlag ==
    [][/\ ~(isConnected' /\ isConnecting')
       /\ (~isConnected /\ isConnected') => TaskIs("event", "open")
       /\ (\/ TaskIs("event", "close")
           \/ TaskIs("call", "disconnect")
           \/ TaskIs("call", "reconnect"))
             => ~isConnected']_vars

\* an open event has set isConnected while another socket was still
\* connecting
C33_Witness ==
    /\ effects # <<>>
    /\ effects[1].k = "event" /\ effects[1].a = "open"
    /\ isConnected /\ ~isConnecting
    /\ \E s \in SockIds : sock[s] = "connecting"

\* C34: App has at most one poll timer armed, and the timer variable is
\* set exactly when one is armed.
C34_SinglePollTimer ==
    /\ pollTimers <= 1
    /\ dataRefreshInterval <=> pollTimers = 1

\* a second 'disconnected' event in a row has been handled by App: one
\* poll timer is armed
C34_Witness ==
    /\ effects # <<>>
    /\ effects[1] = Eff("event", "close", "", AbnormalClosure)
    /\ closesSinceOpen = 2
    /\ appPhase = "running"
    /\ Count(effects, Eff("timer", "poll", "", configDataRefreshInterval)) = 1
    /\ pollTimers = 1

\* C35: TelegramModule has at most one reconnect timeout pending at any
\* instant; after disconnect() (and until init or the settings form starts
\* the module again) no reconnect timeout is pending and no connect() is
\* attempted, also when a status request of connect() was in flight at the
\* time of disconnect().
C35_NoReconnectAfterDisconnect ==
    [][/\ telegram'.timers <= 1
       /\ telegram'.stopped => telegram'.timers = 0
       /\ (telegram.stopped /\ telegram'.stopped)
             => telegram'.statusInflight <= telegram.statusInflight]_vars

\* C36: a message sendMessage accepted while disconnected is queued and
\* never lost: until it has been delivered it is in the queue (or on its
\* way in a request that has not failed); the queue is taken from its head,
\* one message per step, and only while connected.
C36_QueuedMessageNotLost ==
    [][/\ \A m \in telegram'.accepted :
             \/ \E i \in DOMAIN telegram'.queue : telegram'.queue[i] = m
             \/ m \in telegram'.sending
             \/ m \in telegram'.delivered
       /\ Len(telegram'.queue) < Len(telegram.queue)
             => /\ telegram.connected
                /\ telegram'.queue = Tail(telegram.queue)
                /\ Head(telegram.queue) \in telegram'.sending]_vars

\* the steps a call of request in position q can still take: every
\* attempt is a fetch and then, at most, a refresh and a sleep
StepsLeft(q) ==
    CASE q.pc = "idle" -> 3 * retryAttempts + 1
      [] q.pc = "fetch" -> 3 * (retryAttempts - q.attempt)
      [] q.pc = "refresh" -> 3 * (retryAttempts - q.attempt) - 1
      [] q.pc = "sleep" -> 3 * (retryAttempts - q.attempt) - 2
      [] OTHER -> 0

\* C37: every call of ApiClient.request ends (it returns or throws) after
\* at most 3 fetches of the endpoint: each of its steps brings it nearer
\* to its end; a sleep before a retry lasts 1000 ms times the number of
\* attempts made; the fetch after a 401 and a token refresh is counted
\* among the 3; an error status is thrown at once as an ApiError, with no
\* further fetch.
C37_RequestTerminates ==
    [][\A r \in RequestIds :
            /\ api'.req[r].fetches <= retryAttempts
            /\ api'.req[r] # api.req[r]
                  => /\ StepsLeft(api'.req[r]) < StepsLeft(api.req[r])
                     /\ StepsLeft(api'.req[r]) >= 0
            /\ api'.req[r].pc = "sleep"
                  => api'.req[r].delay = retryDelay * api'.req[r].fetches
            /\ (api.req[r].pc = "refresh" /\ api'.req[r].pc = "fetch")
                  => api'.req[r].fetches = api.req[r].fetches + 1
            /\ (/\ api.req[r].pc = "fetch"
                /\ api'.req[r].pc # "fetch"
                /\ api'.req[r].last = "error")
                  => /\ api'.req[r].pc = "thrown"
                     /\ api'.req[r].error = "ApiError"
                     /\ api'.req[r].fetches = api.req[r].fetches]_vars

\* a call gave up after the third fetch, having slept 1000 and 2000 ms; and
\* another one threw the ApiError of an error status
C37_Witness ==
    /\ \E r \in RequestIds :
          /\ api.req[r].pc = "thrown"
          /\ api.req[r].error = "network"
          /\ api.req[r].attempt = retryAttempts
          /\ api.req[r].fetches = retryAttempts
          /\ api.req[r].delay = 2 * retryDelay
    /\ \E r \in RequestIds :
          /\ api.req[r].pc = "thrown"
          /\ api.req[r].last = "error"

\* C38: with several requests in flight that receive 401, at most one
\* token refresh is in progress; isRefreshing is false when none is, also
\* after a refresh that failed; and a refresh that failed leaves the access
\* token and the refresh token cleared.
C38_SingleRefresh ==
    [][/\ api'.refreshing <= 1
       /\ api'.refreshing = 0 => ~api'.isRefreshing
       /\ (api'.refreshing < api.refreshing /\ api'.lastRefresh # "ok")
             => ~token' /\ ~api'.refreshToken]_vars

\* two calls received 401, one refreshed and that refresh failed
C38_Witness ==
    /\ \A r \in RequestIds : api.req[r].last = "401"
    /\ api.lastRefresh = "network"
    /\ api.refreshing = 0
    /\ ~api.isRefreshing
    /\ ~token
    /\ ~api.refreshToken

\* C39: start() on a stopped conveyor ends with running = true, the same
\* state.interval, one item-generation timer and one work-time timer
\* armed; stop() cancels both: an item-generation timer is armed exactly
\* while running is true.
C39_StartArmsTimers ==
    [][/\ (conveyor'.starting < conveyor.starting /\ ~conveyor.running)
             => /\ conveyor'.running
                /\ ~conveyor'.thrown
                /\ conveyor'.interval = conveyor.interval
                /\ conveyor'.itemTimers = 1
                /\ conveyor'.workTimers = 1
       /\ (conveyor'.stopping < conveyor.stopping)
             => conveyor'.itemTimers = 0 /\ conveyor'.workTimers = 0
       /\ conveyor'.running <=> conveyor'.itemTimers = 1]_vars

\* the status the specification gives to a value
ExpectedStatus(value, min, max) ==
    IF value < min \/ value > max
    THEN "error"
    ELSE IF 10 * value < 10 * min + (max - min)
            \/ 10 * value > 10 * max - (max - min)
         THEN "warning"
         ELSE "ok"

\* C40: getStatus(value, min, max) is 'error' for a value outside
\* [min, max], 'warning' for a value inside it but within 10% of the range
\* from a bound, and 'ok' otherwise.
C40_StatusOfValue ==
    air.computed
        => air.status = ExpectedStatus(air.value, paramMin[air.param],
                                       paramMax[air.param])

====
